---- MODULE Spec2Model ----
(***************************************************************************)
(* Model of Weather_fetch.py: a four-stage batch pipeline                  *)
(*   fetch_weather_data -> save_to_csv -> clean_data -> summarize_data     *)
(* run once by the __main__ block, and the same four functions called      *)
(* directly as a library (SpecCalls).                                      *)
(*                                                                         *)
(* Values.  A JSON number is [null, n, isInt]: Python's json gives an int  *)
(* for 20 and a float for 20.0, and null gives None.  A CSV cell is the    *)
(* text [empty, n, d, dot]: the number n/d written with a decimal point    *)
(* (dot) or without, or the empty field.  A DataFrame cell is [na, n, d]:  *)
(* the number n/d or NaN; the column carries its dtype.                    *)
(***************************************************************************)
EXTENDS Integers, Sequences, FiniteSets, TLC

\* Longest batch (number of observations) of the multi-row inputs.
MaxLen == 3
\* Number of direct library calls explored by SpecCalls.
MaxCalls == 2

\* The ValidationRules of clean_data.
TempMin == 0
TempMax == 60
HumMin == 0
HumMax == 80
WindMin == 3
WindMax == 150

\* HTTP status of a successful response.
StatusOK == 200

RawFile == "weather_data.csv"
CleanFile == "cleaned_data.csv"
FileNames == {RawFile, CleanFile}

Header == <<"Time", "Temperature", "Humidity", "Wind Speed">>
numeric_columns == <<"Temperature", "Humidity", "Wind Speed">>
NumCols == {numeric_columns[i] : i \in 1..Len(numeric_columns)}

KTime == "time"
KTemp == "temperature_2m"
KHum == "relative_humidity_2m"
KWind == "wind_speed_10m"
AllKeys == {KTime, KTemp, KHum, KWind}

-----------------------------------------------------------------------------
\* Rational arithmetic for column means.

Abs(x) == IF x < 0 THEN -x ELSE x

RECURSIVE GCD(_, _)
GCD(a, b) == IF b = 0 THEN a ELSE GCD(b, a % b)

\* The rational n/d (d > 0) in lowest terms.
Rat(n, d) ==
    LET g == GCD(Abs(n), d)
    IN  [n |-> n \div g, d |-> d \div g]

\* lo <= n/d <= hi
RatGE(n, d, lo) == n >= lo * d
RatLE(n, d, hi) == n <= hi * d

-----------------------------------------------------------------------------
\* JSON values of the API response.

JNull == [null |-> TRUE, n |-> 0, isInt |-> FALSE]
JInt(v) == [null |-> FALSE, n |-> v, isInt |-> TRUE]
JFloat(v) == [null |-> FALSE, n |-> v, isInt |-> FALSE]

\* JSON null in the time sequence.
TimeNull == "<null>"
\* A missing Time in a DataFrame.
TimeNaN == "<NaN>"

TimeVals == {"t0", "t1", TimeNull}
TempVals == {JNull, JInt(TempMin - 1), JInt(TempMin), JFloat(TempMax), JInt(TempMax + 1)}
HumVals == {JNull, JFloat(HumMin - 1), JInt(HumMin), JFloat(HumMax), JInt(HumMax + 1)}
WindVals == {JNull, JInt(WindMin - 1), JFloat(WindMin), JInt(WindMax), JFloat(WindMax + 1)}

Obs(t, temp, hum, wind) == [time |-> t, temp |-> temp, hum |-> hum, wind |-> wind]

\* Every single observation over the value sets.
Rows == {Obs(t, a, b, c) : t \in TimeVals, a \in TempVals, b \in HumVals, c \in WindVals}

\* The observations the multi-row batches are built from.
CoreRows ==
    { Obs("t0", JInt(TempMin), JInt(HumMin), JFloat(WindMin)),
      Obs("t1", JFloat(TempMax), JFloat(HumMax), JInt(WindMax)),
      Obs(TimeNull, JInt(20), JFloat(50), JInt(10)),
      Obs("t0", JNull, JInt(50), JInt(10)),
      Obs("t1", JInt(20), JNull, JNull),
      Obs("t0", JInt(TempMax + 1), JInt(50), JInt(10)),
      Obs("t1", JInt(20), JFloat(HumMin - 1), JInt(10)),
      Obs("t0", JInt(20), JInt(50), JInt(WindMin - 1)) }

SeqsUpTo(S, n) == UNION {[1..k -> S] : k \in 0..n}

\* Python's None as a value of the batch type.
None ==
    [isNone |-> TRUE, keys |-> {}, time |-> <<>>, temperature_2m |-> <<>>,
     relative_humidity_2m |-> <<>>, wind_speed_10m |-> <<>>]

\* The hourly object holding the observations rs as four parallel sequences.
FromRows(rs) ==
    [isNone |-> FALSE, keys |-> AllKeys,
     time |-> [i \in 1..Len(rs) |-> rs[i].time],
     temperature_2m |-> [i \in 1..Len(rs) |-> rs[i].temp],
     relative_humidity_2m |-> [i \in 1..Len(rs) |-> rs[i].hum],
     wind_speed_10m |-> [i \in 1..Len(rs) |-> rs[i].wind]]

Field(h, k) ==
    CASE k = KTime -> h.time
      [] k = KTemp -> h.temperature_2m
      [] k = KHum -> h.relative_humidity_2m
      [] k = KWind -> h.wind_speed_10m

\* RawWeatherBatch invariant: all four sequences, of identical length.
IsRawWeatherBatch(h) ==
    /\ ~h.isNone
    /\ h.keys = AllKeys
    /\ \A k \in AllKeys : Len(Field(h, k)) = Len(h.time)

CoreBatches == {FromRows(rs) : rs \in SeqsUpTo(CoreRows, MaxLen)}
Batches == {FromRows(<<r>>) : r \in Rows} \cup CoreBatches

\* An hourly object keeping only the keys K.
Restrict(h, K) ==
    [isNone |-> FALSE, keys |-> K,
     time |-> IF KTime \in K THEN h.time ELSE <<>>,
     temperature_2m |-> IF KTemp \in K THEN h.temperature_2m ELSE <<>>,
     relative_humidity_2m |-> IF KHum \in K THEN h.relative_humidity_2m ELSE <<>>,
     wind_speed_10m |-> IF KWind \in K THEN h.wind_speed_10m ELSE <<>>]

Front(s) == IF Len(s) = 0 THEN s ELSE SubSeq(s, 1, Len(s) - 1)

\* An hourly object whose sequence k lost its last element.
Truncate(h, k) ==
    [isNone |-> FALSE, keys |-> h.keys,
     time |-> IF k = KTime THEN Front(h.time) ELSE h.time,
     temperature_2m |-> IF k = KTemp THEN Front(h.temperature_2m) ELSE h.temperature_2m,
     relative_humidity_2m |->
         IF k = KHum THEN Front(h.relative_humidity_2m) ELSE h.relative_humidity_2m,
     wind_speed_10m |-> IF k = KWind THEN Front(h.wind_speed_10m) ELSE h.wind_speed_10m]

\* The observations the malformed hourly objects are built from.
DamageRows ==
    { Obs("t0", JInt(TempMin), JInt(HumMin), JFloat(WindMin)),
      Obs("t1", JInt(TempMax + 1), JNull, JInt(10)) }

DamagedHourly ==
    LET base == {FromRows(rs) : rs \in SeqsUpTo(DamageRows, MaxLen)}
    IN  {Restrict(h, K) : h \in base, K \in (SUBSET AllKeys) \ {AllKeys}}
        \cup {Truncate(h, k) : h \in base, k \in AllKeys}

\* The decoded body of a response: a JSON object with or without "hourly".
NoHourly == [hasHourly |-> FALSE, hourly |-> None]
WithHourly(h) == [hasHourly |-> TRUE, hourly |-> h]
Bodies == {NoHourly} \cup {WithHourly(h) : h \in Batches \cup DamagedHourly}

Statuses == {StatusOK, 404, 500}

-----------------------------------------------------------------------------
\* CSV files and DataFrames.

EmptyCell == [empty |-> TRUE, n |-> 0, d |-> 1, dot |-> FALSE]
Text(n, d, dot) == [empty |-> FALSE, n |-> n, d |-> d, dot |-> dot]

NaN == [na |-> TRUE, n |-> 0, d |-> 1]
Num(n, d) == [na |-> FALSE, n |-> n, d |-> d]

NoFile == [exists |-> FALSE, header |-> <<>>, rows |-> <<>>]
File(header, rows) == [exists |-> TRUE, header |-> header, rows |-> rows]

\* The value of column c of a row (of a file or of a DataFrame).
Col(row, c) ==
    CASE c = "Temperature" -> row.Temperature
      [] c = "Humidity" -> row.Humidity
      [] c = "Wind Speed" -> row.WindSpeed

SetCol(row, c, v) ==
    CASE c = "Temperature" -> [row EXCEPT !.Temperature = v]
      [] c = "Humidity" -> [row EXCEPT !.Humidity = v]
      [] c = "Wind Speed" -> [row EXCEPT !.WindSpeed = v]

\* csv.writer's text of a value: str(value), and the empty field for None.
WriteTime(t) == IF t = TimeNull THEN "" ELSE t
WriteCell(v) == IF v.null THEN EmptyCell ELSE Text(v.n, 1, ~v.isInt)

\* Variant of ParseCell that takes a zero for a missing value.
ParseCell_ZeroIsMissing(x) ==
    IF x.empty \/ x.n = 0 THEN [na |-> TRUE, n |-> 0, d |-> 1]
    ELSE [na |-> FALSE, n |-> x.n, d |-> x.d]

\* pd.read_csv: the empty field is NaN, a numeric literal is its value.
ParseTime(t) == IF t = "" THEN TimeNaN ELSE t
ParseCell(x) == IF x.empty THEN NaN ELSE Num(x.n, x.d)

\* The dtype read_csv infers for numeric column c: int64 when every field is an
\* integer literal, float64 when a field is empty or has a decimal point, object
\* when the file has no data row.
InferDtype(rows, c) ==
    IF Len(rows) = 0 THEN "object"
    ELSE IF \A i \in 1..Len(rows) : ~Col(rows[i], c).empty /\ ~Col(rows[i], c).dot
         THEN "int64"
         ELSE "float64"

read_csv(file) ==
    [dtypes |-> [c \in NumCols |-> InferDtype(file.rows, c)],
     rows |-> [i \in 1..Len(file.rows) |->
                 [Time |-> ParseTime(file.rows[i].Time),
                  Temperature |-> ParseCell(file.rows[i].Temperature),
                  Humidity |-> ParseCell(file.rows[i].Humidity),
                  WindSpeed |-> ParseCell(file.rows[i].WindSpeed)]]]

\* DataFrame.to_csv(index=False): NaN is the empty field, an int64 value has no
\* decimal point, a float64 value has one.
FormatTime(t) == IF t = TimeNaN THEN "" ELSE t
FormatCell(x, dtype) == IF x.na THEN EmptyCell ELSE Text(x.n, x.d, dtype # "int64")

to_csv(df) ==
    File(Header,
         [i \in 1..Len(df.rows) |->
            [Time |-> FormatTime(df.rows[i].Time),
             Temperature |-> FormatCell(df.rows[i].Temperature, df.dtypes["Temperature"]),
             Humidity |-> FormatCell(df.rows[i].Humidity, df.dtypes["Humidity"]),
             WindSpeed |-> FormatCell(df.rows[i].WindSpeed, df.dtypes["Wind Speed"])]])

\* Variant of Between with the bounds excluded: (x > lo) & (x < hi).
Between_Exclusive(x, lo, hi) == ~x.na /\ x.n > lo * x.d /\ x.n < hi * x.d

\* Variant of Between written as ~((x < lo) | (x > hi)), which NaN passes.
Between_NaNPasses(x, lo, hi) == x.na \/ (RatGE(x.n, x.d, lo) /\ RatLE(x.n, x.d, hi))

\* (x >= lo) & (x <= hi): a comparison with NaN is False.
Between(x, lo, hi) == ~x.na /\ RatGE(x.n, x.d, lo) /\ RatLE(x.n, x.d, hi)

\* df[mask]: the rows whose column c is in [lo, hi], in their order.
FilterCol(df, c, lo, hi) ==
    [df EXCEPT !.rows = SelectSeq(df.rows, LAMBDA r : Between(Col(r, c), lo, hi))]

\* Variant of FilterRows that lets Humidity go up to 100.
FilterRows_HumidityTo100(df) ==
    FilterCol(FilterCol(FilterCol(df, "Temperature", TempMin, TempMax),
                        "Humidity", HumMin, 100),
              "Wind Speed", WindMin, WindMax)

\* Lines 61-63: the three range filters, one after the other.
FilterRows(df) ==
    FilterCol(FilterCol(FilterCol(df, "Temperature", TempMin, TempMax),
                        "Humidity", HumMin, HumMax),
              "Wind Speed", WindMin, WindMax)

\* Sum of the non-missing values of column c over rows 1..k, as a rational.
RECURSIVE ColSum(_, _, _)
ColSum(rows, c, k) ==
    IF k = 0 THEN [n |-> 0, d |-> 1]
    ELSE LET s == ColSum(rows, c, k - 1)
             x == Col(rows[k], c)
         IN  IF x.na THEN s ELSE Rat(s.n * x.d + x.n * s.d, s.d * x.d)

ColCount(rows, c) == Cardinality({i \in 1..Len(rows) : ~Col(rows[i], c).na})

\* Series.mean(): the mean of the non-missing values, NaN when there is none.
ColMean(rows, c) ==
    LET cnt == ColCount(rows, c)
        s == ColSum(rows, c, Len(rows))
        m == Rat(s.n, s.d * cnt)
    IN  IF cnt = 0 THEN NaN ELSE Num(m.n, m.d)

\* Series.fillna(v): v in place of every NaN (filling with NaN changes nothing).
FillCol(rows, c, v) ==
    [i \in 1..Len(rows) |->
        IF Col(rows[i], c).na THEN SetCol(rows[i], c, v) ELSE rows[i]]

RECURSIVE FillCols(_, _, _)
FillCols(rows, all, k) ==
    IF k = 0 THEN rows
    ELSE FillCol(FillCols(rows, all, k - 1), numeric_columns[k],
                 ColMean(all, numeric_columns[k]))

\* Variant of Impute that also fills a missing Time, with the first Time present.
Impute_FillsTime(df) ==
    LET rows == FillCols(df.rows, df.rows, Len(numeric_columns))
        I == {i \in 1..Len(rows) : rows[i].Time # TimeNaN}
        t == rows[CHOOSE i \in I : \A j \in I : i <= j].Time
    IN  [df EXCEPT !.rows =
            [i \in 1..Len(rows) |->
                IF rows[i].Time = TimeNaN /\ I # {}
                THEN [rows[i] EXCEPT !.Time = t] ELSE rows[i]]]

\* Line 67: every numeric column's NaN filled with that column's mean; Time is
\* not among numeric_columns.
Impute(df) ==
    [df EXCEPT !.rows = FillCols(df.rows, df.rows, Len(numeric_columns))]

\* Series.max() / Series.min(), skipping NaN.
ColMax(rows, c) ==
    LET I == {i \in 1..Len(rows) : ~Col(rows[i], c).na}
    IN  IF I = {} THEN NaN
        ELSE Col(rows[CHOOSE i \in I : \A j \in I :
                        Col(rows[i], c).n * Col(rows[j], c).d
                            >= Col(rows[j], c).n * Col(rows[i], c).d], c)

ColMin(rows, c) ==
    LET I == {i \in 1..Len(rows) : ~Col(rows[i], c).na}
    IN  IF I = {} THEN NaN
        ELSE Col(rows[CHOOSE i \in I : \A j \in I :
                        Col(rows[i], c).n * Col(rows[j], c).d
                            <= Col(rows[j], c).n * Col(rows[i], c).d], c)

-----------------------------------------------------------------------------
\* The four functions, as the effect of one call.

Msg(text, code, file) == [text |-> text, code |-> code, file |-> file]
MsgHourlyMissing == Msg("Warning: 'hourly' data missing in API response.", 0, "")
MsgFetchError(code) == Msg("Error: Unable to fetch data. Status code", code, "")
MsgNoDataToSave == Msg("No data available to save.", 0, "")
MsgSaved(f) == Msg("Weather data saved to", 0, f)
MsgCleaned(f) == Msg("Cleaned data saved to", 0, f)
MsgNoDataToSummarize == Msg("No data available to summarize.", 0, "")
MsgSummary == Msg("Weather Data Summary", 0, "")

\* A response of the API: requests.get raises (no response), or an HTTP status
\* and a decoded JSON body.
Response(raises, status, body) == [raises |-> raises, status |-> status, body |-> body]
Responses ==
    {Response(TRUE, 0, NoHourly)}
        \cup {Response(FALSE, st, b) : st \in Statuses, b \in Bodies}

\* Variant of fetch_weather_data that asks for "hourly" only.
fetch_weather_data_AnyHourly(resp) ==
    IF resp.raises
    THEN [ret |-> None, msgs |-> <<>>, raised |-> "ConnectionError", requests |-> 1]
    ELSE IF resp.status = StatusOK
         THEN IF resp.body.hasHourly
              THEN [ret |-> resp.body.hourly, msgs |-> <<>>, raised |-> "",
                    requests |-> 1]
              ELSE [ret |-> None, msgs |-> <<MsgHourlyMissing>>, raised |-> "",
                    requests |-> 1]
         ELSE [ret |-> None, msgs |-> <<MsgFetchError(resp.status)>>,
               raised |-> "", requests |-> 1]

\* Lines 10-23.  One requests.get; requests counts the GETs the call issued.
fetch_weather_data(resp) ==
    IF resp.raises
    THEN [ret |-> None, msgs |-> <<>>, raised |-> "ConnectionError", requests |-> 1]
    ELSE IF resp.status = StatusOK
         THEN IF resp.body.hasHourly /\ KTemp \in resp.body.hourly.keys
              THEN [ret |-> resp.body.hourly, msgs |-> <<>>, raised |-> "",
                    requests |-> 1]
              ELSE [ret |-> None, msgs |-> <<MsgHourlyMissing>>, raised |-> "",
                    requests |-> 1]
         ELSE [ret |-> None, msgs |-> <<MsgFetchError(resp.status)>>,
               raised |-> "", requests |-> 1]

\* Python truth value of a batch: None and the empty dict are false.
Truthy(data) == ~data.isNone /\ data.keys # {}

\* The exception that building row i of the CSV raises, "" when there is none:
\* data[key] raises KeyError, data[key][i] raises IndexError (lines 42-45).
RowError(data, i) ==
    LET Err(k) == IF k \notin data.keys THEN "KeyError"
                  ELSE IF i > Len(Field(data, k)) THEN "IndexError" ELSE ""
    IN  IF Err(KTime) # "" THEN Err(KTime)
        ELSE IF Err(KTemp) # "" THEN Err(KTemp)
        ELSE IF Err(KHum) # "" THEN Err(KHum)
        ELSE Err(KWind)

\* Variant of CsvRow with Humidity and Wind Speed in each other's place.
CsvRow_Swapped(data, i) ==
    [Time |-> WriteTime(data.time[i]),
     Temperature |-> WriteCell(data.temperature_2m[i]),
     Humidity |-> WriteCell(data.wind_speed_10m[i]),
     WindSpeed |-> WriteCell(data.relative_humidity_2m[i])]

\* Lines 41-46: the row of index i.
CsvRow(data, i) ==
    [Time |-> WriteTime(data.time[i]),
     Temperature |-> WriteCell(data.temperature_2m[i]),
     Humidity |-> WriteCell(data.relative_humidity_2m[i]),
     WindSpeed |-> WriteCell(data.wind_speed_10m[i])]

\* Lines 33-48.  open(filename, "w") truncates the file, the header is written,
\* then one row per index of data["time"]; an exception ends the loop and leaves
\* the rows written so far in the file.
WriteRows(data, filename, files) ==
    IF KTime \notin data.keys
    THEN [fs |-> [files EXCEPT ![filename] = File(Header, <<>>)],
          msgs |-> <<>>, raised |-> "KeyError"]
    ELSE LET n == Len(data.time)
             bad == {i \in 1..n : RowError(data, i) # ""}
             first == CHOOSE i \in bad : \A j \in bad : i <= j
             written == IF bad = {} THEN n ELSE first - 1
         IN  [fs |-> [files EXCEPT ![filename] =
                         File(Header, [i \in 1..written |-> CsvRow(data, i)])],
              msgs |-> IF bad = {} THEN <<MsgSaved(filename)>> ELSE <<>>,
              raised |-> IF bad = {} THEN "" ELSE RowError(data, first)]

\* Variant of save_to_csv that opens the file before it looks at data.
save_to_csv_OpensFirst(data, filename, files) ==
    IF ~Truthy(data)
    THEN [fs |-> [files EXCEPT ![filename] = File(<<>>, <<>>)],
          msgs |-> <<MsgNoDataToSave>>, raised |-> ""]
    ELSE WriteRows(data, filename, files)

\* Lines 27-48.  Nothing is opened when data is None or empty.
save_to_csv(data, filename, files) ==
    IF ~Truthy(data)
    THEN [fs |-> files, msgs |-> <<MsgNoDataToSave>>, raised |-> ""]
    ELSE WriteRows(data, filename, files)

EmptyFrame == [dtypes |-> [c \in NumCols |-> "object"], rows |-> <<>>]

\* Lines 52-71.  filtered is the local df after line 63.
clean_data(input_file, output_file, files) ==
    IF ~files[input_file].exists
    THEN [fs |-> files, msgs |-> <<>>, raised |-> "FileNotFoundError",
          filtered |-> EmptyFrame]
    ELSE LET df == FilterRows(read_csv(files[input_file]))
         IN  [fs |-> [files EXCEPT ![output_file] = to_csv(Impute(df))],
              msgs |-> <<MsgCleaned(output_file)>>, raised |-> "",
              filtered |-> df]

NoSummary ==
    [printed |-> FALSE, total |-> 0, avgT |-> NaN, maxT |-> NaN, minT |-> NaN,
     avgH |-> NaN, avgW |-> NaN]

\* Lines 76-97.  summary is the dictionary of lines 85-92.
summarize_data(filename, files) ==
    IF ~files[filename].exists
    THEN [summary |-> NoSummary, msgs |-> <<>>, raised |-> "FileNotFoundError"]
    ELSE LET df == read_csv(files[filename])
         IN  IF Len(df.rows) = 0
             THEN [summary |-> NoSummary, msgs |-> <<MsgNoDataToSummarize>>,
                   raised |-> ""]
             ELSE [summary |->
                      [printed |-> TRUE, total |-> Len(df.rows),
                       avgT |-> ColMean(df.rows, "Temperature"),
                       maxT |-> ColMax(df.rows, "Temperature"),
                       minT |-> ColMin(df.rows, "Temperature"),
                       avgH |-> ColMean(df.rows, "Humidity"),
                       avgW |-> ColMean(df.rows, "Wind Speed")],
                   msgs |-> <<MsgSummary>>, raised |-> ""]

-----------------------------------------------------------------------------
\* State.

VARIABLES
    pc,            \* position of the __main__ block, "lib" for library use
    response,      \* what the last requests.get gave
    weather_data,  \* what fetch_weather_data last returned
    fs,            \* the file system: file name -> file
    console,       \* the lines printed so far
    stages,        \* the stages that were started, in order
    gets,          \* HTTP GETs issued so far
    save_arg,      \* the data argument of the last save_to_csv call
    df_filtered,   \* the local df of the last clean_data call after line 63
    summary,       \* the summary of the last summarize_data call
    raised,        \* the exception that ended the last call, "" for none
    calls          \* library calls made so far

vars ==
    <<pc, response, weather_data, fs, console, stages, gets, save_arg, df_filtered,
      summary, raised, calls>>

\* Files left by an earlier run.
OldRaw ==
    File(Header,
         <<[Time |-> "t1", Temperature |-> Text(TempMax, 1, TRUE),
            Humidity |-> Text(HumMax, 1, TRUE), WindSpeed |-> Text(WindMax, 1, FALSE)]>>)
OldFileSystems ==
    { [f \in FileNames |-> NoFile],
      [f \in FileNames |-> OldRaw],
      [f \in FileNames |-> IF f = RawFile THEN OldRaw ELSE NoFile] }

\* No request made yet.
NoResponse == Response(FALSE, 0, NoHourly)

InitCommon ==
    /\ response = NoResponse
    /\ weather_data = None
    /\ fs \in OldFileSystems
    /\ console = <<>>
    /\ stages = <<>>
    /\ gets = 0
    /\ save_arg = None
    /\ df_filtered = EmptyFrame
    /\ summary = NoSummary
    /\ raised = ""
    /\ calls = 0

Init == pc = "start" /\ InitCommon

\* Where main goes after a call: an uncaught exception ends the process.
After(exc, next) == IF exc = "" THEN next ELSE "crashed"

\* Line 102.
Fetch ==
    /\ pc = "start"
    /\ \E resp \in Responses :
         LET r == fetch_weather_data(resp)
         IN  /\ response' = resp
             /\ weather_data' = r.ret
             /\ console' = console \o r.msgs
             /\ gets' = gets + r.requests
             /\ raised' = r.raised
             /\ pc' = After(r.raised, "fetched")
    /\ stages' = Append(stages, "Fetcher")
    /\ UNCHANGED <<fs, save_arg, df_filtered, summary, calls>>

\* Line 104, false branch: nothing else runs.
SkipStages ==
    /\ pc = "fetched"
    /\ ~Truthy(weather_data)
    /\ pc' = "done"
    /\ UNCHANGED <<response, weather_data, fs, console, stages, gets, save_arg, df_filtered,
                   summary, raised, calls>>

\* Variant of Save without the test of line 104.
Save_Unguarded ==
    /\ pc = "fetched"
    /\ LET r == save_to_csv(weather_data, RawFile, fs)
       IN  /\ fs' = r.fs
           /\ console' = console \o r.msgs
           /\ raised' = r.raised
           /\ pc' = After(r.raised, "saved")
    /\ save_arg' = weather_data
    /\ stages' = Append(stages, "Writer")
    /\ UNCHANGED <<response, weather_data, gets, df_filtered, summary, calls>>

\* Lines 104-105.
Save ==
    /\ pc = "fetched"
    /\ Truthy(weather_data)
    /\ LET r == save_to_csv(weather_data, RawFile, fs)
       IN  /\ fs' = r.fs
           /\ console' = console \o r.msgs
           /\ raised' = r.raised
           /\ pc' = After(r.raised, "saved")
    /\ save_arg' = weather_data
    /\ stages' = Append(stages, "Writer")
    /\ UNCHANGED <<response, weather_data, gets, df_filtered, summary, calls>>

\* Line 106.
Clean ==
    /\ pc = "saved"
    /\ LET r == clean_data(RawFile, CleanFile, fs)
       IN  /\ fs' = r.fs
           /\ console' = console \o r.msgs
           /\ raised' = r.raised
           /\ df_filtered' = r.filtered
           /\ pc' = After(r.raised, "cleaned")
    /\ stages' = Append(stages, "Cleaner")
    /\ UNCHANGED <<response, weather_data, gets, save_arg, summary, calls>>

\* Line 107.
Summarize ==
    /\ pc = "cleaned"
    /\ LET r == summarize_data(CleanFile, fs)
       IN  /\ summary' = r.summary
           /\ console' = console \o r.msgs
           /\ raised' = r.raised
           /\ pc' = After(r.raised, "done")
    /\ stages' = Append(stages, "Summarizer")
    /\ UNCHANGED <<response, weather_data, fs, gets, save_arg, df_filtered, calls>>

Next == Fetch \/ SkipStages \/ Save \/ Clean \/ Summarize

Spec == Init /\ [][Next]_vars

-----------------------------------------------------------------------------
\* The functions called directly, in any order, by a program that imports the
\* module and catches what they raise.

EmptyDict == [None EXCEPT !.isNone = FALSE]

\* The data arguments of the direct save_to_csv calls: no batch, a valid batch
\* of two observations, and batches that lack a key or have a short sequence.
CallBatch ==
    FromRows(<<Obs("t0", JInt(TempMin), JInt(HumMin), JFloat(WindMin)),
               Obs("t1", JInt(TempMax + 1), JNull, JInt(10))>>)
CallArgs ==
    {None, EmptyDict, CallBatch, FromRows(<<>>), Restrict(CallBatch, {KTemp}),
     Truncate(CallBatch, KWind)}

CallResponses ==
    {Response(TRUE, 0, NoHourly), Response(FALSE, 404, NoHourly),
     Response(FALSE, StatusOK, NoHourly), Response(FALSE, StatusOK, WithHourly(CallBatch))}

InitCalls == pc = "lib" /\ InitCommon

CallFetch ==
    /\ pc = "lib" /\ calls < MaxCalls
    /\ \E resp \in CallResponses :
         LET r == fetch_weather_data(resp)
         IN  /\ response' = resp
             /\ weather_data' = r.ret
             /\ console' = console \o r.msgs
             /\ gets' = gets + r.requests
             /\ raised' = r.raised
    /\ stages' = Append(stages, "Fetcher")
    /\ calls' = calls + 1
    /\ UNCHANGED <<pc, fs, save_arg, df_filtered, summary>>

CallSave ==
    /\ pc = "lib" /\ calls < MaxCalls
    /\ \E data \in CallArgs, filename \in FileNames :
         LET r == save_to_csv(data, filename, fs)
         IN  /\ fs' = r.fs
             /\ console' = console \o r.msgs
             /\ raised' = r.raised
             /\ save_arg' = data
    /\ stages' = Append(stages, "Writer")
    /\ calls' = calls + 1
    /\ UNCHANGED <<pc, response, weather_data, gets, df_filtered, summary>>

CallClean ==
    /\ pc = "lib" /\ calls < MaxCalls
    /\ \E input_file \in FileNames, output_file \in FileNames :
         LET r == clean_data(input_file, output_file, fs)
         IN  /\ fs' = r.fs
             /\ console' = console \o r.msgs
             /\ raised' = r.raised
             /\ df_filtered' = r.filtered
    /\ stages' = Append(stages, "Cleaner")
    /\ calls' = calls + 1
    /\ UNCHANGED <<pc, response, weather_data, gets, save_arg, summary>>

CallSummarize ==
    /\ pc = "lib" /\ calls < MaxCalls
    /\ \E filename \in FileNames :
         LET r == summarize_data(filename, fs)
         IN  /\ summary' = r.summary
             /\ console' = console \o r.msgs
             /\ raised' = r.raised
    /\ stages' = Append(stages, "Summarizer")
    /\ calls' = calls + 1
    /\ UNCHANGED <<pc, response, weather_data, fs, gets, save_arg, df_filtered>>

NextCalls == CallFetch \/ CallSave \/ CallClean \/ CallSummarize

SpecCalls == InitCalls /\ [][NextCalls]_vars

-----------------------------------------------------------------------------
\* Properties.

Last(s) == s[Len(s)]
AllStages == <<"Fetcher", "Writer", "Cleaner", "Summarizer">>

\* clean_data has returned in this run: RawFile is what it read, CleanFile what
\* it wrote, df_filtered its table after the filter step.
Cleaned == pc \in {"cleaned", "done"} /\ Len(stages) >= 3

\* The number a CSV field or a DataFrame cell holds, whatever its notation.
TextVal(x) == [missing |-> x.empty, n |-> x.n, d |-> x.d]
CellVal(x) == [missing |-> x.na, n |-> x.n, d |-> x.d]
RowVal(r) ==
    [Time |-> r.Time, Temperature |-> TextVal(r.Temperature),
     Humidity |-> TextVal(r.Humidity), WindSpeed |-> TextVal(r.WindSpeed)]
RowVals(rows) == [i \in 1..Len(rows) |-> RowVal(rows[i])]

\* A present value within [lo, hi], bounds included.
ValIn(v, lo, hi) == ~v.missing /\ lo * v.d <= v.n /\ v.n <= hi * v.d

\* The three ValidationRules on a row of values.
RowValid(v) ==
    /\ ValIn(v.Temperature, TempMin, TempMax)
    /\ ValIn(v.Humidity, HumMin, HumMax)
    /\ ValIn(v.WindSpeed, WindMin, WindMax)

FrameRowVal(r) ==
    [Time |-> r.Time, Temperature |-> CellVal(r.Temperature),
     Humidity |-> CellVal(r.Humidity), WindSpeed |-> CellVal(r.WindSpeed)]

\* C1: every row of the table clean_data writes has Temperature in [0,60],
\* Humidity in [0,80] and Wind Speed in [3,150], and so has every row of the
\* table after the filter step and after the imputation step.
C1_CleanedRowsInRange ==
    Cleaned =>
        /\ \A i \in 1..Len(fs[CleanFile].rows) : RowValid(RowVal(fs[CleanFile].rows[i]))
        /\ \A i \in 1..Len(df_filtered.rows) : RowValid(FrameRowVal(df_filtered.rows[i]))
        /\ \A i \in 1..Len(df_filtered.rows) :
              RowValid(FrameRowVal(Impute(df_filtered).rows[i]))

\* The input had a missing value and a value out of range, and rows survived.
C1_Witness ==
    /\ Cleaned
    /\ Len(fs[CleanFile].rows) >= 1
    /\ \E i \in 1..Len(fs[RawFile].rows) : fs[RawFile].rows[i].Temperature.empty
    /\ \E i \in 1..Len(fs[RawFile].rows) :
          LET v == RowVal(fs[RawFile].rows[i])
          IN  ~v.Humidity.missing /\ ~ValIn(v.Humidity, HumMin, HumMax)

\* C2: clean_data keeps exactly the input rows that satisfy all three rules
\* (bounds included), whole and in their input order, whatever their Time.
C2_KeepsExactlyValidRows ==
    Cleaned =>
        RowVals(fs[CleanFile].rows) = SelectSeq(RowVals(fs[RawFile].rows), RowValid)

\* Rows on the lower and on the upper bounds were kept and another row dropped.
C2_Witness ==
    /\ Cleaned
    /\ Len(fs[CleanFile].rows) = 2
    /\ Len(fs[RawFile].rows) = 3
    /\ \E i \in 1..2 :
          LET v == RowVal(fs[CleanFile].rows[i])
          IN  v.Temperature.n = TempMin /\ v.Humidity.n = HumMin /\ v.WindSpeed.n = WindMin
    /\ \E i \in 1..2 :
          LET v == RowVal(fs[CleanFile].rows[i])
          IN  v.Temperature.n = TempMax /\ v.Humidity.n = HumMax /\ v.WindSpeed.n = WindMax

C5_AbsentBatchNoIO ==
    [][(stages' = Append(stages, "Writer") /\ save_arg' = None) =>
          /\ fs' = fs
          /\ console' = Append(console, MsgNoDataToSave)
          /\ raised' = ""]_vars

\* save_to_csv was just called with no batch while the file held rows.
C5_Witness ==
    /\ pc = "lib"
    /\ stages # <<>> /\ Last(stages) = "Writer"
    /\ save_arg = None
    /\ Last(console) = MsgNoDataToSave
    /\ fs[RawFile].exists /\ Len(fs[RawFile].rows) >= 1

\* C6: after save_to_csv wrote a batch of four sequences of equal length n, the
\* file is the header and exactly n rows, row i holding the text of time[i],
\* temperature_2m[i], relative_humidity_2m[i] and wind_speed_10m[i]; nothing of
\* the old file is left.
C6_WriterWritesHeaderAndEveryRow ==
    (pc \in {"saved", "cleaned", "done"} /\ Len(stages) >= 2
        /\ IsRawWeatherBatch(weather_data)) =>
        LET f == fs[RawFile]
            Same(x, v) == x.empty = v.null /\ (~v.null => x.n = v.n /\ x.d = 1
                                                   /\ x.dot = ~v.isInt)
        IN  /\ f.exists
            /\ f.header = Header
            /\ Len(f.rows) = Len(weather_data.time)
            /\ \A i \in 1..Len(f.rows) :
                  /\ f.rows[i].Time =
                        IF weather_data.time[i] = TimeNull THEN ""
                        ELSE weather_data.time[i]
                  /\ Same(f.rows[i].Temperature, weather_data.temperature_2m[i])
                  /\ Same(f.rows[i].Humidity, weather_data.relative_humidity_2m[i])
                  /\ Same(f.rows[i].WindSpeed, weather_data.wind_speed_10m[i])

\* A batch of three observations replaced the file an earlier run had left.
C6_Witness ==
    /\ pc = "saved"
    /\ IsRawWeatherBatch(weather_data)
    /\ Len(weather_data.time) = 3
    /\ fs[CleanFile] = OldRaw
    /\ Len(fs[RawFile].rows) = 3
    /\ fs[RawFile].rows[1].Humidity # fs[RawFile].rows[1].WindSpeed

\* C7: when every input row satisfies the three rules (so has no missing
\* value), clean_data writes the same rows with the same values in the same
\* order; and cleaning what clean_data wrote writes that same file again.
C7_CleanIsIdempotent ==
    Cleaned =>
        /\ (\A i \in 1..Len(fs[RawFile].rows) : RowValid(RowVal(fs[RawFile].rows[i])))
              => RowVals(fs[CleanFile].rows) = RowVals(fs[RawFile].rows)
        /\ clean_data(CleanFile, CleanFile, fs).fs[CleanFile] = fs[CleanFile]

\* All three input rows were valid, one of them on the lower bounds, with an
\* integer and a decimal notation in the same column.
C7_Witness ==
    /\ Cleaned
    /\ Len(fs[RawFile].rows) = 3
    /\ \A i \in 1..3 : RowValid(RowVal(fs[RawFile].rows[i]))
    /\ \E i \in 1..3 : fs[RawFile].rows[i].Temperature.n = TempMin
    /\ \E i, j \in 1..3 :
          fs[RawFile].rows[i].Temperature.dot /\ ~fs[RawFile].rows[j].Temperature.dot
    /\ Len(fs[CleanFile].rows) = 3

\* C8: fetch_weather_data issues one GET; it returns no batch when the status
\* is not 200 and when the body lacks hourly or hourly lacks temperature_2m,
\* and returns the hourly object otherwise.
C8_FetchReturnsHourlyOnlyOn200 ==
    /\ gets <= 1
    /\ pc # "start" =>
          /\ gets = 1
          /\ response.raises => weather_data = None
          /\ (~response.raises /\ response.status # StatusOK) => weather_data = None
          /\ (~response.raises /\ response.status = StatusOK
                /\ ~(response.body.hasHourly
                        /\ "temperature_2m" \in response.body.hourly.keys))
                => weather_data = None
          /\ (~response.raises /\ response.status = StatusOK
                /\ response.body.hasHourly
                /\ "temperature_2m" \in response.body.hourly.keys)
                => weather_data = response.body.hourly

\* A 200 response whose hourly object has time but no temperature_2m gave no
\* batch.
C8_Witness ==
    /\ pc = "done"
    /\ ~response.raises /\ response.status = StatusOK
    /\ response.body.hasHourly
    /\ "time" \in response.body.hourly.keys
    /\ "temperature_2m" \notin response.body.hourly.keys
    /\ weather_data = None
    /\ gets = 1

\* C9: every batch fetch_weather_data returns has all four sequences, of
\* identical length.
C9_FetchedBatchIsRawWeatherBatch ==
    weather_data # None => IsRawWeatherBatch(weather_data)

\* C10: no row with a missing numeric value survives the filter, the
\* imputation changes no cell, and clean_data writes the filtered table.
C10_ImputationChangesNothing ==
    Cleaned =>
        /\ \A i \in 1..Len(df_filtered.rows) : \A c \in NumCols :
              ~Col(df_filtered.rows[i], c).na
        /\ Impute(df_filtered) = df_filtered
        /\ fs[CleanFile] = to_csv(df_filtered)

\* The input had rows with a missing Humidity or Wind Speed next to a row that
\* survived.
C10_Witness ==
    /\ Cleaned
    /\ \E i \in 1..Len(fs[RawFile].rows) : fs[RawFile].rows[i].Humidity.empty
    /\ \E i \in 1..Len(fs[RawFile].rows) :
          fs[RawFile].rows[i].Temperature.empty /\ ~fs[RawFile].rows[i].Humidity.empty
    /\ Len(df_filtered.rows) = 1
    /\ Len(fs[RawFile].rows) = 3

====
